---- MODULE Spec2Model ----
(***************************************************************************)
(* Model of the FBP graph document model of src/src/graph/graph.rs: the    *)
(* event bus (EventManager for Graph), the transaction manager and the     *)
(* mutation API of Graph.                                                   *)
(*                                                                          *)
(* A graph value G is a record holding the fields of struct Graph that the *)
(* mutation engine reads or writes, plus observation fields that are not   *)
(* part of the program: events (every emit call, in order), log (every     *)
(* callback invocation, in order), held (the callback mutexes locked by    *)
(* the current call stack) and status ("ok", or how the call ended:        *)
(* "exit" for process::exit(1), "panic" for a Rust panic, "blocked" for a  *)
(* block_on that never returns).  Every method of Graph is an operator     *)
(* from a graph value to a graph value; a method invoked on a graph whose  *)
(* status is not "ok" does nothing, which is how the rest of a call is     *)
(* skipped once the process has stopped.                                   *)
(*                                                                          *)
(* Option<T> is a sequence of length 0 (None) or 1 (Some(x)); a            *)
(* serde_json Map is a set of <<key, value>> pairs; a HashMap is a         *)
(* function on its key set; a Vec is a sequence.                           *)
(***************************************************************************)
EXTENDS Integers, Sequences, FiniteSets, TLC

VARIABLES g, last, steps

vars == <<g, last, steps>>

-----------------------------------------------------------------------------
(* Bounds of the model *)

MaxOps == 2


-----------------------------------------------------------------------------
(* Option, Map, HashMap and Vec helpers *)

None == <<>>

Some(x) == <<x>>

is_some(o) == o # <<>>

is_none(o) == o = <<>>

unwrap(o) == o[1]

EmptyMap == {}

(* Value::Null, the JSON null a patch carries for a key to delete. *)
Null == "null"

map_keys(m) == {kv[1] : kv \in m}

map_get(m, k) == IF k \in map_keys(m) THEN Some((CHOOSE kv \in m : kv[1] = k)[2]) ELSE None

map_remove(m, k) == {kv \in m : kv[1] # k}

map_insert(m, k, v) == map_remove(m, k) \cup {<<k, v>>}

(* for each key of p: m.insert(key, p[key]) *)
map_extend(m, p) == {kv \in m : kv[1] \notin map_keys(p)} \cup p

hash_insert(h, key, v) == [k \in (DOMAIN h) \cup {key} |-> IF k = key THEN v ELSE h[k]]

hash_remove(h, key) == [k \in (DOMAIN h) \ {key} |-> h[k]]

contains_key(h, key) == key \in DOMAIN h

EmptyHash == [k \in {} |-> None]

RECURSIVE SetToSeq(_)
(* The keys of a HashMap as a sequence: the order an iteration visits them in   *)
(* is unspecified in Rust; the model fixes one, and no property checked here   *)
(* reads the relative order of two keys of one map.                            *)
SetToSeq(S) == IF S = {} THEN <<>> ELSE LET x == CHOOSE y \in S : TRUE IN <<x>> \o SetToSeq(S \ {x})

vec_remove(v, i) == [j \in 1..(Len(v) - 1) |-> IF j < i THEN v[j] ELSE v[j + 1]]

Ok(G) == G.status = "ok"

(* A field assignment of the method body: skipped once the call has stopped. *)
Upd(G, G2) == IF Ok(G) THEN G2 ELSE G

Stop(G, how) == [G EXCEPT !.status = how]

-----------------------------------------------------------------------------
(* Graph::new.  next_cb numbers the closures handed to connect and        *)
(* next_uid is the source of guid(): each add_node takes a uid that no      *)
(* other node of the graph has.                                              *)

new(name, case_sensitive) == [name |-> name, case_sensitive |-> case_sensitive, nodes |-> <<>>, edges |-> <<>>, initializers |-> <<>>, groups |-> <<>>, inports |-> EmptyHash, outports |-> EmptyHash, properties |-> EmptyMap, transaction |-> [id |-> None, depth |-> 0], listeners |-> EmptyHash, next_cb |-> 1, next_uid |-> 1, events |-> <<>>, log |-> <<>>, held |-> {}, status |-> "ok"]

(* str::to_lowercase on the port names of the model. *)
to_lowercase(s) == CASE s = "OUT" -> "out" [] s = "IN" -> "in" [] s = "FILE" -> "file" [] OTHER -> s

get_port_name(G, port) == IF G.case_sensitive THEN port ELSE to_lowercase(port)

RECURSIVE emit(_, _, _)

-----------------------------------------------------------------------------
(* Transaction manager *)

open_transaction(G, id) == [G EXCEPT !.transaction = [id |-> Some(id), depth |-> 1]]

close_transaction(G) == [G EXCEPT !.transaction = [id |-> None, depth |-> 0]]

(* start_transaction without the `if self.transaction.id.is_some()` exit: a   *)
(* second transaction silently replaces the open one.                        *)
start_transaction_nesting(G, id) == IF ~Ok(G) THEN G ELSE emit(open_transaction(G, id), "start_transaction", id)

start_transaction(G, id) == IF ~Ok(G) THEN G ELSE IF is_some(G.transaction.id) THEN Stop(G, "exit") ELSE emit(open_transaction(G, id), "start_transaction", id)

end_transaction(G, id) == IF ~Ok(G) THEN G ELSE IF is_none(G.transaction.id) THEN Stop(G, "exit") ELSE emit(close_transaction(G), "end_transaction", id)

check_transaction_start(G) == IF ~Ok(G) THEN G ELSE IF is_none(G.transaction.id) THEN start_transaction(G, "implicit") ELSE IF unwrap(G.transaction.id) = "implicit" THEN [G EXCEPT !.transaction.depth = @ + 1] ELSE G

(* if self.transaction.depth == 0 { self.end_transaction("implicit", None) } *)
end_if_depth_0(G) == IF G.transaction.depth = 0 THEN end_transaction(G, "implicit") ELSE G

(* check_transaction_end without the `if self.transaction.depth == 0` close:  *)
(* the depth is decremented and the implicit transaction is left open.       *)
check_transaction_end_left_open(G) == IF ~Ok(G) \/ is_none(G.transaction.id) THEN G ELSE IF unwrap(G.transaction.id) = "implicit" THEN [G EXCEPT !.transaction.depth = @ - 1] ELSE G

check_transaction_end(G) == IF ~Ok(G) \/ is_none(G.transaction.id) THEN G ELSE end_if_depth_0(IF unwrap(G.transaction.id) = "implicit" THEN [G EXCEPT !.transaction.depth = @ - 1] ELSE G)

-----------------------------------------------------------------------------
(* Merge-patch loop shared by the set_*_metadata methods: for every key of   *)
(* the patch, Map::get(key) decides between insert and remove.               *)

patch_key(existing_meta, item, val) == IF is_some(val) THEN map_insert(existing_meta, item, unwrap(val)) ELSE map_remove(existing_meta, item)

RECURSIVE patch_keys(_, _, _)
patch_keys(existing_meta, metadata, keys) == IF keys = {} THEN existing_meta ELSE patch_keys(patch_key(existing_meta, CHOOSE k \in keys : TRUE, map_get(metadata, CHOOSE k \in keys : TRUE)), metadata, keys \ {CHOOSE k \in keys : TRUE})

apply_patch(existing_meta, metadata) == patch_keys(existing_meta, metadata, map_keys(metadata))

-----------------------------------------------------------------------------
(* Properties and lookups *)

set_properties_body(G, properties) == emit(Upd(G, [G EXCEPT !.properties = map_extend(@, properties)]), "change_properties", <<map_extend(G.properties, properties), G.properties>>)

set_properties(G, properties) == IF ~Ok(G) THEN G ELSE check_transaction_end(set_properties_body(check_transaction_start(G), properties))

node_ids(G) == [i \in 1..Len(G.nodes) |-> G.nodes[i].id]

has_node(G, key) == \E i \in 1..Len(G.nodes) : G.nodes[i].id = key

(* self.nodes.iter().find(|n| n.id == key): the first node with that id *)
get_node(G, key) == IF has_node(G, key) THEN Some(G.nodes[CHOOSE i \in 1..Len(G.nodes) : G.nodes[i].id = key /\ \A j \in 1..(i - 1) : G.nodes[j].id # key]) ELSE None

-----------------------------------------------------------------------------
(* Exported ports.  `side` is "inports" or "outports": the inport and the    *)
(* outport methods are the same code on the two maps.                        *)

ports_of(G, side) == IF side = "inports" THEN G.inports ELSE G.outports

with_ports(G, side, h) == IF side = "inports" THEN [G EXCEPT !.inports = h] ELSE [G EXCEPT !.outports = h]

ev(side, verb) == IF side = "inports" THEN verb \o "_inport" ELSE verb \o "_outport"

add_port_body(G, side, port_name, val) == emit(Upd(G, with_ports(G, side, hash_insert(ports_of(G, side), port_name, val))), ev(side, "add"), <<port_name, val>>)

add_port_unvalidated(G, side, public_port, node_key, port_key, metadata) ==
  IF ~Ok(G) THEN G
  ELSE check_transaction_end(add_port_body(check_transaction_start(G), side, get_port_name(G, public_port), [process |-> node_key, port |-> get_port_name(G, port_key), metadata |-> metadata]))

add_port(G, side, public_port, node_key, port_key, metadata) ==
  IF ~Ok(G) \/ ~has_node(G, node_key) THEN G
  ELSE check_transaction_end(add_port_body(check_transaction_start(G), side, get_port_name(G, public_port), [process |-> node_key, port |-> get_port_name(G, port_key), metadata |-> metadata]))

add_inport(G, public_port, node_key, port_key, metadata) == add_port(G, "inports", public_port, node_key, port_key, metadata)

add_outport(G, public_port, node_key, port_key, metadata) == add_port(G, "outports", public_port, node_key, port_key, metadata)

(* p after `if p.metadata.is_none() { p.metadata = Some(Map::new()) }` *)
port_meta(p) == IF is_none(p.metadata) THEN EmptyMap ELSE unwrap(p.metadata)

(* The port is written back to the map inside the loop over the patch keys. *)
set_ports_metadata_body(G, side, port_name, metadata) ==
  IF ~Ok(G) \/ ~contains_key(ports_of(G, side), port_name) THEN G
  ELSE LET p0 == ports_of(G, side)[port_name]
           p2 == [p0 EXCEPT !.metadata = Some(apply_patch(port_meta(p0), metadata))]
       IN emit(IF metadata = EmptyMap THEN G ELSE with_ports(G, side, hash_insert(ports_of(G, side), port_name, p2)), ev(side, "change"), <<port_name, p2, Some(port_meta(p0)), metadata>>)

set_ports_metadata(G, side, public_port, metadata) ==
  IF ~Ok(G) \/ ~contains_key(ports_of(G, side), get_port_name(G, public_port)) THEN G
  ELSE check_transaction_end(set_ports_metadata_body(check_transaction_start(G), side, get_port_name(G, public_port), metadata))

set_inports_metadata(G, public_port, metadata) == set_ports_metadata(G, "inports", public_port, metadata)

set_outports_metadata(G, public_port, metadata) == set_ports_metadata(G, "outports", public_port, metadata)

drop_port(G, side, port_name) == Upd(G, with_ports(G, side, hash_remove(ports_of(G, side), port_name)))

(* inp is self.inports.clone() taken before the metadata is cleared *)
remove_port_body(G, side, port_name) == emit(drop_port(set_ports_metadata(G, side, port_name, EmptyMap), side, port_name), ev(side, "remove"), <<port_name, IF contains_key(ports_of(G, side), port_name) THEN Some(ports_of(G, side)[port_name]) ELSE None>>)

remove_port(G, side, public_port) ==
  IF ~Ok(G) \/ ~contains_key(ports_of(G, side), get_port_name(G, public_port)) THEN G
  ELSE check_transaction_end(remove_port_body(check_transaction_start(G), side, get_port_name(G, public_port)))

remove_inport(G, public_port) == remove_port(G, "inports", public_port)

remove_outport(G, public_port) == remove_port(G, "outports", public_port)

rename_port_body(G, side, old_port_name, new_port_name) ==
  IF ~Ok(G) \/ ~contains_key(ports_of(G, side), old_port_name) THEN G
  ELSE emit(with_ports(G, side, hash_remove(hash_insert(ports_of(G, side), new_port_name, ports_of(G, side)[old_port_name]), old_port_name)), ev(side, "rename"), <<old_port_name, new_port_name>>)

rename_port(G, side, old_port, new_port) ==
  IF ~Ok(G) \/ ~contains_key(ports_of(G, side), get_port_name(G, old_port)) \/ get_port_name(G, new_port) = get_port_name(G, old_port) THEN G
  ELSE check_transaction_end(rename_port_body(check_transaction_start(G), side, get_port_name(G, old_port), get_port_name(G, new_port)))

rename_inport(G, old_port, new_port) == rename_port(G, "inports", old_port, new_port)

rename_outport(G, old_port, new_port) == rename_port(G, "outports", old_port, new_port)

-----------------------------------------------------------------------------
(* Groups *)

add_group_body(G, grp) == emit(Upd(G, [G EXCEPT !.groups = Append(@, grp)]), "add_group", grp)

add_group(G, group, nodes, metadata) == IF ~Ok(G) THEN G ELSE check_transaction_end(add_group_body(check_transaction_start(G), [name |-> group, nodes |-> nodes, metadata |-> metadata]))

RECURSIVE rename_group_loop(_, _, _, _, _)
(* for i in 0..self.groups.len(): the length is read once, self.groups[i] is *)
(* indexed on every round.                                                    *)
rename_group_loop(G, old_name, new_name, i, n) ==
  IF ~Ok(G) \/ i > n THEN G
  ELSE IF i > Len(G.groups) THEN Stop(G, "panic")
  ELSE IF G.groups[i].name = old_name
       THEN rename_group_loop(emit([G EXCEPT !.groups[i].name = new_name], "rename_group", <<old_name, new_name>>), old_name, new_name, i + 1, n)
       ELSE rename_group_loop(G, old_name, new_name, i + 1, n)

rename_group_body(G, old_name, new_name) == rename_group_loop(G, old_name, new_name, 1, Len(G.groups))

rename_group(G, old_name, new_name) == IF ~Ok(G) THEN G ELSE check_transaction_end(rename_group_body(check_transaction_start(G), old_name, new_name))

(* `if let Some(meta) = group.metadata.as_mut()`: a group without metadata is left without *)
patch_group(group, metadata) == IF is_some(group.metadata) THEN [group EXCEPT !.metadata = Some(apply_patch(unwrap(@), metadata))] ELSE group

(* self.groups[i] = group.clone(); self.emit("change_group", ...) *)
store_group(G, i, group, before, metadata) == IF i > Len(G.groups) THEN Stop(G, "panic") ELSE emit([G EXCEPT !.groups[i] = group], "change_group", <<group, before, metadata>>)

RECURSIVE set_group_metadata_loop(_, _, _, _, _)
(* for (i, group) in self.groups.clone().iter_mut().enumerate() *)
set_group_metadata_loop(G, clone, group_name, metadata, i) ==
  IF ~Ok(G) \/ i > Len(clone) THEN G
  ELSE IF clone[i].name # group_name THEN set_group_metadata_loop(G, clone, group_name, metadata, i + 1)
  ELSE set_group_metadata_loop(store_group(G, i, patch_group(clone[i], metadata), clone[i].metadata, metadata), clone, group_name, metadata, i + 1)

set_group_metadata_body(G, group_name, metadata) == set_group_metadata_loop(G, G.groups, group_name, metadata, 1)

set_group_metadata(G, group_name, metadata) == IF ~Ok(G) THEN G ELSE check_transaction_end(set_group_metadata_body(check_transaction_start(G), group_name, metadata))

(* A filter closure returned true for x: x stays in the collected vector. *)
keep(x, r) == [G |-> r.G, kept |-> <<x>> \o r.kept]

RECURSIVE remove_group_filter(_, _, _, _)
(* The filter closure of remove_group over self.groups.clone(): the graph   *)
(* after the closure's calls and the groups the filter keeps.                *)
remove_group_filter(G, clone, group_name, i) ==
  IF ~Ok(G) \/ i > Len(clone) THEN [G |-> G, kept |-> <<>>]
  ELSE IF clone[i].name = group_name
       THEN remove_group_filter(emit(set_group_metadata(G, group_name, EmptyMap), "remove_group", clone[i]), clone, group_name, i + 1)
       ELSE keep(clone[i], remove_group_filter(G, clone, group_name, i + 1))

(* self.groups = <the collected vector> *)
assign_groups(r) == Upd(r.G, [r.G EXCEPT !.groups = r.kept])

remove_group_body(G, group_name) == assign_groups(remove_group_filter(G, G.groups, group_name, 1))

remove_group(G, group_name) == IF ~Ok(G) THEN G ELSE check_transaction_end(remove_group_body(check_transaction_start(G), group_name))

-----------------------------------------------------------------------------
(* Edges *)

leaf(node_id, port, index) == [node_id |-> node_id, port |-> port, index |-> index]

same_ports(edge, node, out_port, node2, in_port) == edge.from.node_id = node /\ edge.from.port = out_port /\ edge.to.node_id = node2 /\ edge.to.port = in_port

has_edge(edges, node, out_port, node2, in_port) == \E i \in 1..Len(edges) : same_ports(edges[i], node, out_port, node2, in_port)

(* Iterator::find / Iterator::position on the four keys: the first match *)
find_edge(edges, node, out_port, node2, in_port) == CHOOSE i \in 1..Len(edges) : same_ports(edges[i], node, out_port, node2, in_port) /\ \A j \in 1..(i - 1) : ~same_ports(edges[j], node, out_port, node2, in_port)

get_edge(G, node, port, node2, port2) == IF has_edge(G.edges, node, get_port_name(G, port), node2, get_port_name(G, port2)) THEN Some(G.edges[find_edge(G.edges, node, get_port_name(G, port), node2, get_port_name(G, port2))]) ELSE None

(* edge after `if edge.metadata.is_none() { edge.metadata = Some(Map::new()) }` *)
edge_meta(edge) == IF is_none(edge.metadata) THEN EmptyMap ELSE unwrap(edge.metadata)

(* The position(..).unwrap() of set_edge_metadata compares the stored port  *)
(* names with the arguments as they were passed.                             *)
store_edge(G, node, port, node2, port2, edge) == IF ~Ok(G) THEN G ELSE IF ~has_edge(G.edges, node, port, node2, port2) THEN Stop(G, "panic") ELSE [G EXCEPT !.edges[find_edge(G.edges, node, port, node2, port2)] = edge]

set_edge_metadata_body(G, node, port, node2, port2, metadata, edge0) == store_edge(emit(G, "change_edge", <<[edge0 EXCEPT !.metadata = Some(apply_patch(edge_meta(edge0), metadata))], Some(edge_meta(edge0)), metadata>>), node, port, node2, port2, [edge0 EXCEPT !.metadata = Some(apply_patch(edge_meta(edge0), metadata))])

set_edge_metadata(G, node, port, node2, port2, metadata) ==
  IF ~Ok(G) \/ is_none(get_edge(G, node, port, node2, port2)) THEN G
  ELSE check_transaction_end(set_edge_metadata_body(check_transaction_start(G), node, port, node2, port2, metadata, unwrap(get_edge(G, node, port, node2, port2))))

add_edge_body(G, edge) == emit(Upd(G, [G EXCEPT !.edges = Append(@, edge)]), "add_edge", edge)

some_or_empty(metadata) == IF is_none(metadata) THEN Some(EmptyMap) ELSE metadata

add_edge(G, out_node, out_port, in_node, in_port, metadata) ==
  IF ~Ok(G) THEN G
  ELSE IF has_edge(G.edges, out_node, get_port_name(G, out_port), in_node, get_port_name(G, in_port)) THEN G
  ELSE IF ~has_node(G, out_node) THEN G
  ELSE IF ~has_node(G, in_node) THEN G
  ELSE check_transaction_end(add_edge_body(check_transaction_start(G), [from |-> leaf(out_node, get_port_name(G, out_port), None), to |-> leaf(in_node, get_port_name(G, in_port), None), metadata |-> some_or_empty(metadata)]))

add_edge_index(G, out_node, out_port, index_1, in_node, in_port, index_2, metadata) ==
  IF ~Ok(G) THEN G
  ELSE IF \E i \in 1..Len(G.edges) : same_ports(G.edges[i], out_node, get_port_name(G, out_port), in_node, get_port_name(G, in_port)) /\ index_1 = G.edges[i].from.index /\ index_2 = G.edges[i].to.index THEN G
  ELSE IF ~has_node(G, out_node) THEN G
  ELSE IF ~has_node(G, in_node) THEN G
  ELSE check_transaction_end(add_edge_body(check_transaction_start(G), [from |-> leaf(out_node, get_port_name(G, out_port), index_1), to |-> leaf(in_node, get_port_name(G, in_port), index_2), metadata |-> some_or_empty(metadata)]))

(* The predicate of remove_edge's filter closure: TRUE when the edge is removed. *)
remove_edge_match(edge, node, out_port, node2, in_port) ==
  IF is_some(in_port) /\ is_some(node2)
  THEN same_ports(edge, node, out_port, unwrap(node2), unwrap(in_port))
  ELSE (edge.from.node_id = node /\ edge.from.port = out_port) \/ (edge.to.node_id = node /\ edge.to.port = out_port)

RECURSIVE remove_edge_filter(_, _, _, _, _, _, _)
(* The filter closure of remove_edge over self.edges.clone(). *)
remove_edge_filter(G, clone, node, out_port, node2, in_port, i) ==
  IF ~Ok(G) \/ i > Len(clone) THEN [G |-> G, kept |-> <<>>]
  ELSE IF remove_edge_match(clone[i], node, out_port, node2, in_port)
       THEN remove_edge_filter(emit(set_edge_metadata(G, clone[i].from.node_id, clone[i].from.port, clone[i].to.node_id, clone[i].to.port, EmptyMap), "remove_edge", clone[i]), clone, node, out_port, node2, in_port, i + 1)
       ELSE keep(clone[i], remove_edge_filter(G, clone, node, out_port, node2, in_port, i + 1))

(* self.edges = <the collected vector> *)
assign_edges(r) == Upd(r.G, [r.G EXCEPT !.edges = r.kept])

remove_edge_body(G, node, out_port, node2, in_port) == assign_edges(remove_edge_filter(G, G.edges, node, out_port, node2, in_port, 1))

(* node2.or(Some("")).unwrap() *)
or_empty(o) == IF is_some(o) THEN unwrap(o) ELSE ""

remove_edge(G, node, port, node2, port2) ==
  IF ~Ok(G) THEN G
  ELSE IF is_none(get_edge(G, node, port, or_empty(node2), or_empty(port2))) THEN G
  ELSE check_transaction_end(remove_edge_body(check_transaction_start(G), node, get_port_name(G, port), node2, IF is_some(port2) THEN Some(get_port_name(G, unwrap(port2))) ELSE None))

-----------------------------------------------------------------------------
(* Initial information packets *)

add_initial_body(G, initializer) == emit(Upd(G, [G EXCEPT !.initializers = Append(@, initializer)]), "add_initial", initializer)

add_initial_index(G, data, node, port, index, metadata) ==
  IF ~Ok(G) \/ ~has_node(G, node) THEN G
  ELSE check_transaction_end(add_initial_body(check_transaction_start(G), [to |-> Some(leaf(node, get_port_name(G, port), index)), from |-> Some([data |-> data]), metadata |-> some_or_empty(metadata)]))

add_initial(G, data, node, port, metadata) ==
  IF ~Ok(G) \/ ~has_node(G, node) THEN G
  ELSE check_transaction_end(add_initial_body(check_transaction_start(G), [to |-> Some(leaf(node, get_port_name(G, port), None)), from |-> Some([data |-> data]), metadata |-> some_or_empty(metadata)]))

add_graph_initial(G, data, node, metadata) == IF Ok(G) /\ contains_key(G.inports, node) THEN add_initial(G, data, G.inports[node].process, G.inports[node].port, some_or_empty(metadata)) ELSE G

add_graph_initial_index(G, data, node, index, metadata) == IF Ok(G) /\ contains_key(G.inports, node) THEN add_initial_index(G, data, G.inports[node].process, G.inports[node].port, index, some_or_empty(metadata)) ELSE G

RECURSIVE remove_initial_loop(_, _, _, _, _)
(* for iip in inits: emits for the matching ones, pushes the ones without a `to`. *)
remove_initial_loop(G, inits, id, port_name, i) ==
  IF ~Ok(G) \/ i > Len(inits) THEN [G |-> G, kept |-> <<>>]
  ELSE IF is_some(inits[i].to)
       THEN remove_initial_loop(IF unwrap(inits[i].to).node_id = id /\ unwrap(inits[i].to).port = port_name THEN emit(G, "remove_initial", inits[i]) ELSE G, inits, id, port_name, i + 1)
       ELSE keep(inits[i], remove_initial_loop(G, inits, id, port_name, i + 1))

(* self.initializers = _initializers *)
assign_initializers(r) == Upd(r.G, [r.G EXCEPT !.initializers = r.kept])

remove_initial_body(G, id, port_name) == assign_initializers(remove_initial_loop(G, G.initializers, id, port_name, 1))

remove_initial(G, id, port) == IF ~Ok(G) THEN G ELSE check_transaction_end(remove_initial_body(check_transaction_start(G), id, get_port_name(G, port)))

remove_graph_initial(G, id) == IF Ok(G) /\ contains_key(G.inports, id) THEN remove_initial(G, G.inports[id].process, G.inports[id].port) ELSE G

-----------------------------------------------------------------------------
(* Nodes *)

add_node_body(G, node) == emit(Upd(G, [G EXCEPT !.nodes = Append(@, node)]), "add_node", node)

(* guid() hands out an identifier no other node of the graph has: a counter. *)
add_node(G, id, component, metadata) == IF ~Ok(G) THEN G ELSE check_transaction_end(add_node_body(check_transaction_start([G EXCEPT !.next_uid = @ + 1]), [id |-> id, uid |-> G.next_uid, component |-> component, metadata |-> metadata]))

(* node.metadata after the is_none reset, the empty-patch reset and the loop over the patch keys *)
patched_node(node, metadata) == [node EXCEPT !.metadata = Some(apply_patch(IF is_none(node.metadata) \/ map_keys(metadata) = {} THEN EmptyMap ELSE unwrap(node.metadata), metadata))]

(* let node_index = self.nodes.iter().position(..).unwrap(); self.nodes[node_index] = node *)
store_node(G, id, node) == IF ~Ok(G) THEN G ELSE IF ~has_node(G, id) THEN Stop(G, "panic") ELSE [G EXCEPT !.nodes[CHOOSE i \in 1..Len(G.nodes) : G.nodes[i].id = id /\ \A j \in 1..(i - 1) : G.nodes[j].id # id] = node]

set_node_metadata_body(G, id, metadata, node0) == store_node(emit(G, "change_node", <<patched_node(node0, metadata), node0.metadata, metadata>>), id, patched_node(node0, metadata))

(* check_transaction_end is called after the `if let`, whether or not the node exists *)
set_node_metadata(G, id, metadata) ==
  IF ~Ok(G) THEN G
  ELSE check_transaction_end(IF is_none(get_node(G, id)) THEN G ELSE set_node_metadata_body(check_transaction_start(G), id, metadata, unwrap(get_node(G, id))))

RECURSIVE remove_node_edges(_, _, _, _)
(* self.edges.clone().iter().foreach(...) of remove_node *)
remove_node_edges(G, clone, id, i) ==
  IF ~Ok(G) \/ i > Len(clone) THEN G
  ELSE IF clone[i].from.node_id = id \/ clone[i].to.node_id = id
       THEN remove_node_edges(remove_edge(G, clone[i].from.node_id, clone[i].from.port, Some(clone[i].to.node_id), Some(clone[i].to.port)), clone, id, i + 1)
       ELSE remove_node_edges(G, clone, id, i + 1)

RECURSIVE remove_node_initializers(_, _, _, _)
(* self.initializers.clone().iter().foreach(...) of remove_node *)
remove_node_initializers(G, clone, id, i) ==
  IF ~Ok(G) \/ i > Len(clone) THEN G
  ELSE IF is_some(clone[i].to) /\ unwrap(clone[i].to).node_id = id
       THEN remove_node_initializers(remove_initial(G, unwrap(clone[i].to).node_id, unwrap(clone[i].to).port), clone, id, i + 1)
       ELSE remove_node_initializers(G, clone, id, i + 1)

RECURSIVE remove_node_ports(_, _, _, _, _)
(* self.inports.clone().keys().foreach(...) and the same over the outports *)
remove_node_ports(G, side, keys, id, i) ==
  IF ~Ok(G) \/ i > Len(keys) THEN G
  ELSE IF contains_key(ports_of(G, side), keys[i]) /\ ports_of(G, side)[keys[i]].process = id
       THEN remove_node_ports(remove_port(G, side, keys[i]), side, keys, id, i + 1)
       ELSE remove_node_ports(G, side, keys, id, i + 1)

contains(nodes, id) == \E j \in 1..Len(nodes) : nodes[j] = id

(* The first filter closure of remove_node's group pass, for a group without members *)
remove_node_empty_group(G, group) == check_transaction_end(emit(set_group_metadata(check_transaction_start(G), group.name, EmptyMap), "remove_group", group))

(* The second filter: .filter(|group| !group.nodes.contains(&id)) *)
keep_unless_member(group, id, r) == IF contains(group.nodes, id) THEN r ELSE keep(group, r)

RECURSIVE remove_node_groups(_, _, _, _)
(* The two filters over self.groups.clone() of remove_node: the first one   *)
(* emits for a group without members and keeps it, the second one drops     *)
(* every group that lists id.                                                *)
remove_node_groups(G, clone, id, i) ==
  IF ~Ok(G) \/ i > Len(clone) THEN [G |-> G, kept |-> <<>>]
  ELSE keep_unless_member(clone[i], id, remove_node_groups(IF clone[i].nodes = <<>> THEN remove_node_empty_group(G, clone[i]) ELSE G, clone, id, i + 1))

remove_node_edge_pass(G, id) == remove_node_edges(G, G.edges, id, 1)

(* remove_node without its pass over the initializers. *)
remove_node_initializer_pass_skipped(G, id) == G

remove_node_initializer_pass(G, id) == remove_node_initializers(G, G.initializers, id, 1)

remove_node_inport_pass(G, id) == remove_node_ports(G, "inports", SetToSeq(DOMAIN G.inports), id, 1)

remove_node_outport_pass(G, id) == remove_node_ports(G, "outports", SetToSeq(DOMAIN G.outports), id, 1)

remove_node_group_pass(G, id) == assign_groups(remove_node_groups(G, G.groups, id, 1))

(* self.nodes = self.nodes.clone().iter().filter(|n| n.id != node.id)...; self.emit("remove_node", &node) *)
remove_node_drop(G, node) == emit(Upd(G, [G EXCEPT !.nodes = SelectSeq(@, LAMBDA n : n.id # node.id)]), "remove_node", node)

remove_node(G, id) ==
  IF ~Ok(G) \/ is_none(get_node(G, id)) THEN G
  ELSE check_transaction_end(remove_node_drop(set_node_metadata(remove_node_group_pass(remove_node_outport_pass(remove_node_inport_pass(remove_node_initializer_pass(remove_node_edge_pass(check_transaction_start(G), id), id), id), id), id), id, EmptyMap), unwrap(get_node(G, id))))

rename_leaf(l, old_id, new_id) == IF l.node_id = old_id THEN [l EXCEPT !.node_id = new_id] ELSE l

rename_in_edge(edge, old_id, new_id) == [edge EXCEPT !.from = rename_leaf(@, old_id, new_id), !.to = rename_leaf(@, old_id, new_id)]

rename_in_initializer(iip, old_id, new_id) == IF is_some(iip.to) THEN [iip EXCEPT !.to = Some(rename_leaf(unwrap(@), old_id, new_id))] ELSE iip

rename_in_ports(h, old_id, new_id) == [k \in DOMAIN h |-> IF h[k].process = old_id THEN [h[k] EXCEPT !.process = new_id] ELSE h[k]]

(* group.nodes.iter().position(|n| n == old_id): the first occurrence only *)
rename_in_group(group, old_id, new_id) == IF contains(group.nodes, old_id) THEN [group EXCEPT !.nodes[CHOOSE i \in 1..Len(group.nodes) : group.nodes[i] = old_id /\ \A j \in 1..(i - 1) : group.nodes[j] # old_id] = new_id] ELSE group

rename_node_fixup(G, old_id, new_id, node) ==
  IF ~Ok(G) THEN G
  ELSE IF ~has_node(G, old_id) THEN Stop(G, "panic")
  ELSE [G EXCEPT !.nodes[CHOOSE i \in 1..Len(G.nodes) : G.nodes[i].id = old_id /\ \A j \in 1..(i - 1) : G.nodes[j].id # old_id] = node,
                 !.edges = [i \in 1..Len(G.edges) |-> rename_in_edge(G.edges[i], old_id, new_id)],
                 !.initializers = [i \in 1..Len(G.initializers) |-> rename_in_initializer(G.initializers[i], old_id, new_id)],
                 !.inports = rename_in_ports(G.inports, old_id, new_id),
                 !.outports = rename_in_ports(G.outports, old_id, new_id),
                 !.groups = [i \in 1..Len(G.groups) |-> rename_in_group(G.groups[i], old_id, new_id)]]

rename_node(G, old_id, new_id) ==
  IF ~Ok(G) \/ is_none(get_node(G, old_id)) THEN G
  ELSE check_transaction_end(emit(rename_node_fixup(check_transaction_start(G), old_id, new_id, [unwrap(get_node(G, old_id)) EXCEPT !.id = new_id]), "rename_node", <<old_id, new_id>>))

-----------------------------------------------------------------------------
(* Event bus.  A listener is [once, id, act]: id identifies the             *)
(* Arc<Mutex<callback>> created by connect, act names what the closure does  *)
(* with the graph it is handed.                                              *)

MissingId == "z"

(* EventManager::connect, disconnect, has_event *)
connect(G, name, act, once) == [G EXCEPT !.listeners = hash_insert(@, name, IF contains_key(@, name) THEN Append(@[name], [once |-> once, id |-> G.next_cb, act |-> act]) ELSE <<[once |-> once, id |-> G.next_cb, act |-> act]>>), !.next_cb = @ + 1]

disconnect(G, name) == [G EXCEPT !.listeners = hash_remove(@, name)]

has_event(G, name) == contains_key(G.listeners, name)

(* The closures subscribed in this model; each is handed &mut Graph. *)
run_callback(G, l, name, data) ==
  CASE l.act = "observe" -> G
    [] l.act = "set_node_metadata" -> set_node_metadata(G, MissingId, EmptyMap)
    [] l.act = "remove_node" -> remove_node(G, MissingId)
    [] l.act = "rename_node" -> rename_node(G, MissingId, "a")
    [] l.act = "start_transaction" -> start_transaction(G, "nested")
    [] l.act = "add_edge" -> add_edge(G, "a", "out", "b", "in", None)
    [] l.act = "remove_edge" -> remove_edge(G, "a", "out", Some("b"), Some("in"))
    [] l.act = "add_loop_edge" -> add_edge(G, "b", "out", "b", "in", None)
    [] l.act = "add_group" -> add_group(G, "g3", <<"b">>, None)
    [] l.act = "add_initial" -> add_initial(G, "e", "b", "in", None)
    [] l.act = "connect" -> connect(G, name, "observe", FALSE)
    [] l.act = "disconnect" -> disconnect(G, name)
    [] OTHER -> G

(* What a callback can read of the graph it is handed. *)
core(G) == [nodes |-> G.nodes, edges |-> G.edges, initializers |-> G.initializers, groups |-> G.groups, inports |-> G.inports, outports |-> G.outports, properties |-> G.properties, transaction |-> G.transaction]

(* block_on(v[i].callback.lock()): the guard is held until the callback     *)
(* returns.  The log entry records the graph the callback is handed (pre,   *)
(* with n events emitted so far) and, once it has returned, the graph it    *)
(* leaves (post, m events).                                                  *)
lock(G, l, name) == [G EXCEPT !.held = @ \cup {l.id}, !.log = Append(@, [name |-> name, id |-> l.id, act |-> l.act, pre |-> core(G), n |-> Len(G.events), done |-> FALSE, post |-> core(G), m |-> Len(G.events)])]

unlock(G, l) == Upd(G, [G EXCEPT !.held = @ \ {l.id}, !.log[CHOOSE k \in 1..Len(G.log) : G.log[k].id = l.id /\ ~G.log[k].done] = [@ EXCEPT !.done = TRUE, !.post = core(G), !.m = Len(G.events)]])

RECURSIVE emit_loop(_, _, _, _, _, _)
(* for i in 0..v.len(): the range is fixed when the loop starts, v[i] is    *)
(* indexed on every round, and a one-shot listener is removed from v at i.  *)
emit_loop(G, name, data, v, i, n) ==
  IF ~Ok(G) \/ i > n THEN [G |-> G, v |-> v]
  ELSE IF i > Len(v) THEN [G |-> Stop(G, "panic"), v |-> v]
  ELSE IF v[i].id \in G.held THEN [G |-> Stop(G, "blocked"), v |-> v]
  ELSE emit_loop(unlock(run_callback(lock(G, v[i], name), v[i], name, data), v[i]), name, data, IF v[i].once THEN vec_remove(v, i) ELSE v, i + 1, n)

(* self.listeners.insert(name, v.to_vec()) *)
write_back(r, name) == Upd(r.G, [r.G EXCEPT !.listeners = hash_insert(@, name, r.v)])

notify(G, name, data) == IF ~contains_key(G.listeners, name) THEN G ELSE write_back(emit_loop(G, name, data, G.listeners[name], 1, Len(G.listeners[name])), name)

emit(G, name, data) == IF ~Ok(G) THEN G ELSE notify([G EXCEPT !.events = Append(@, [name |-> name, data |-> data])], name, data)


-----------------------------------------------------------------------------
(* Graph::from_json: the constructor that rebuilds a graph from a document  *)

RECURSIVE from_json_processes(_, _, _, _)
from_json_processes(G, json, keys, i) == IF i > Len(keys) THEN G ELSE from_json_processes(add_node(G, keys[i], json.processes[keys[i]].component, json.processes[keys[i]].metadata), json, keys, i + 1)

from_json_initial(G, data, tgt, metadata) == IF is_some(tgt.index) THEN add_initial_index(G, data, tgt.process, get_port_name(G, tgt.port), tgt.index, metadata) ELSE add_initial(G, data, tgt.process, get_port_name(G, tgt.port), metadata)

from_json_edge(G, src, tgt, metadata) == IF is_some(src.index) \/ is_some(tgt.index) THEN add_edge_index(G, src.process, get_port_name(G, src.port), src.index, tgt.process, get_port_name(G, tgt.port), tgt.index, metadata) ELSE add_edge(G, src.process, get_port_name(G, src.port), tgt.process, get_port_name(G, tgt.port), metadata)

from_json_connection(G, conn) ==
  IF is_some(conn.data) /\ is_some(conn.tgt) THEN from_json_initial(G, unwrap(conn.data), unwrap(conn.tgt), conn.metadata)
  ELSE IF is_some(conn.src) \/ is_some(conn.tgt)
  THEN IF is_none(conn.src) \/ is_none(conn.tgt) THEN Stop(G, "panic") ELSE from_json_edge(G, unwrap(conn.src), unwrap(conn.tgt), conn.metadata)
  ELSE G

RECURSIVE from_json_connections(_, _, _)
from_json_connections(G, conns, i) == IF ~Ok(G) \/ i > Len(conns) THEN G ELSE from_json_connections(from_json_connection(G, conns[i]), conns, i + 1)

RECURSIVE from_json_ports(_, _, _, _, _)
from_json_ports(G, side, h, keys, i) == IF i > Len(keys) THEN G ELSE from_json_ports(add_port(G, side, keys[i], h[keys[i]].process, get_port_name(G, h[keys[i]].port), h[keys[i]].metadata), side, h, keys, i + 1)

RECURSIVE from_json_groups(_, _, _)
from_json_groups(G, groups, i) == IF i > Len(groups) THEN G ELSE from_json_groups(add_group(G, groups[i].name, groups[i].nodes, groups[i].metadata), groups, i + 1)

from_json_untransacted(json) == from_json_groups(from_json_ports(from_json_ports(from_json_connections(from_json_processes(set_properties(new(IF is_some(map_get(json.properties, "name")) THEN unwrap(map_get(json.properties, "name")) ELSE "", json.case_sensitive), {kv \in json.properties : kv[1] # "name"}), json, SetToSeq(DOMAIN json.processes), 1), json.connections, 1), "inports", json.inports, SetToSeq(DOMAIN json.inports), 1), "outports", json.outports, SetToSeq(DOMAIN json.outports), 1), json.groups, 1)

from_json(json) == end_transaction(from_json_groups(from_json_ports(from_json_ports(from_json_connections(from_json_processes(set_properties(start_transaction(new(IF is_some(map_get(json.properties, "name")) THEN unwrap(map_get(json.properties, "name")) ELSE "", json.case_sensitive), "load_json"), {kv \in json.properties : kv[1] # "name"}), json, SetToSeq(DOMAIN json.processes), 1), json.connections, 1), "inports", json.inports, SetToSeq(DOMAIN json.inports), 1), "outports", json.outports, SetToSeq(DOMAIN json.outports), 1), json.groups, 1), "load_json")

(* to_json *)

(* `if let Some(metadata) = ... { if !metadata.is_empty() { ... = Some(metadata) } }` on a field that starts as None *)
to_json_metadata(metadata) == IF is_some(metadata) /\ unwrap(metadata) # EmptyMap THEN metadata ELSE None

to_json_leaf(l) == [process |-> l.node_id, port |-> l.port, index |-> l.index]

(* json.processes.insert(node.id, ..) for each node in order: the last node with an id wins. *)
to_json_processes(G) == [id \in {G.nodes[n].id : n \in 1..Len(G.nodes)} |-> [component |-> G.nodes[CHOOSE i \in 1..Len(G.nodes) : G.nodes[i].id = id /\ \A j \in (i + 1)..Len(G.nodes) : G.nodes[j].id # id].component, metadata |-> some_or_empty(G.nodes[CHOOSE i \in 1..Len(G.nodes) : G.nodes[i].id = id /\ \A j \in (i + 1)..Len(G.nodes) : G.nodes[j].id # id].metadata)]]

to_json_connections(G) ==
  [i \in 1..Len(G.edges) |-> [src |-> Some(to_json_leaf(G.edges[i].from)), tgt |-> Some(to_json_leaf(G.edges[i].to)), metadata |-> to_json_metadata(G.edges[i].metadata), data |-> None]]
  \o [i \in 1..Len(G.initializers) |-> [src |-> None, tgt |-> IF is_some(G.initializers[i].to) THEN Some(to_json_leaf(unwrap(G.initializers[i].to))) ELSE None, data |-> IF is_some(G.initializers[i].from) THEN Some(unwrap(G.initializers[i].from).data) ELSE None, metadata |-> to_json_metadata(G.initializers[i].metadata)]]

to_json(G) ==
  [case_sensitive |-> G.case_sensitive,
   properties |-> map_remove(map_remove(map_insert(G.properties, "name", G.name), "baseDir"), "componentLoader"),
   inports |-> G.inports,
   outports |-> G.outports,
   groups |-> G.groups,
   processes |-> to_json_processes(G),
   connections |-> to_json_connections(G)]

-----------------------------------------------------------------------------
(* The documents a graph is constructed from, and the listeners subscribed  *)
(* to it before the first call.                                              *)

NodeIds == {"a", "b"}

Meta1 == {<<"k", "1">>}

leaf_json(process, port, index) == [process |-> process, port |-> port, index |-> index]

edge_json(src, tgt) == [src |-> Some(src), tgt |-> Some(tgt), data |-> None, metadata |-> None]

iip_json(data, tgt) == [src |-> None, tgt |-> Some(tgt), data |-> Some(data), metadata |-> None]

EmptyDoc(cs) == [case_sensitive |-> cs, properties |-> {<<"name", "Main">>}, processes |-> EmptyHash, connections |-> <<>>, inports |-> EmptyHash, outports |-> EmptyHash, groups |-> <<>>]

MainDoc(cs) ==
  [case_sensitive |-> cs,
   properties |-> {<<"name", "Main">>},
   processes |-> [k \in NodeIds |-> [component |-> "c", metadata |-> IF k = "a" THEN Some(Meta1) ELSE None]],
   connections |-> << edge_json(leaf_json("a", "out", None), leaf_json("b", "in", None)),
                      edge_json(leaf_json("a", "out", None), leaf_json("b", "in", Some(2))),
                      edge_json(leaf_json("a", "out", None), leaf_json(MissingId, "in", None)),
                      iip_json("d", leaf_json("a", "in", None)),
                      iip_json("d", leaf_json(MissingId, "in", None)),
                      iip_json("d", leaf_json("b", "in", None)) >>,
   inports |-> [k \in {"file"} |-> [process |-> "a", port |-> "in", metadata |-> None]],
   outports |-> [k \in {"file"} |-> [process |-> "a", port |-> "out", metadata |-> None]],
   groups |-> << [name |-> "g1", nodes |-> <<"a", "b">>, metadata |-> Some(EmptyMap)],
                 [name |-> "g2", nodes |-> <<>>, metadata |-> None] >>]

(* The third document has the two nodes and one edge a.out -> b.in[2] only. *)
Docs == {EmptyDoc(cs) : cs \in BOOLEAN} \cup {MainDoc(cs) : cs \in BOOLEAN}
          \cup {[EmptyDoc(TRUE) EXCEPT !.processes = MainDoc(TRUE).processes, !.connections = <<edge_json(leaf_json("a", "out", None), leaf_json("b", "in", Some(2)))>>]}

sub(name, act, once) == [name |-> name, act |-> act, once |-> once]

RECURSIVE connect_all(_, _, _)
connect_all(G, subs, i) == IF i > Len(subs) THEN G ELSE connect_all(connect(G, subs[i].name, subs[i].act, subs[i].once), subs, i + 1)

(* The subscriptions made after construction: none; persistent observers;  *)
(* a one-shot observer followed by a persistent one; a one-shot observer on *)
(* its own; and closures that call                                           *)
(* back into the graph they are handed.                                      *)
ListenerConfigs ==
  { <<>>,
    <<sub("remove_edge", "observe", FALSE), sub("end_transaction", "observe", FALSE), sub("remove_edge", "observe", TRUE)>>,
    <<sub("add_node", "observe", TRUE), sub("add_node", "observe", FALSE)>>,
    <<sub("add_node", "observe", TRUE), sub("rename_node", "observe", FALSE), sub("remove_initial", "observe", FALSE), sub("remove_group", "observe", FALSE)>>,
    <<sub("start_transaction", "set_node_metadata", FALSE)>>,
    <<sub("change_node", "add_edge", FALSE)>>,
    <<sub("remove_edge", "add_loop_edge", FALSE), sub("remove_group", "add_group", FALSE), sub("remove_initial", "add_initial", FALSE)>>,
    <<sub("add_node", "start_transaction", FALSE), sub("end_transaction", "start_transaction", FALSE)>>,
    <<sub("change_edge", "remove_node", FALSE), sub("change_edge", "rename_node", FALSE)>>,
    <<sub("add_node", "connect", FALSE), sub("change_node", "disconnect", FALSE), sub("remove_edge", "remove_edge", FALSE)>> }

(* The events of the call being made only: the trace and the log are        *)
(* observations.  For a call that repeats the call before it (same method,  *)
(* same arguments), `last.prev` keeps that earlier call: the registry it    *)
(* started from and the callbacks it invoked.                                *)
NoCall == [op |-> "none", args |-> <<>>, listeners |-> EmptyHash, log |-> <<>>]

Begin(G) == [G EXCEPT !.events = <<>>, !.log = <<>>]

Call(op, args, G2) ==
  /\ Ok(g)
  /\ steps < MaxOps
  /\ g' = G2
  /\ last' = [op |-> op, args |-> args, pre |-> Begin(g), prev |-> IF op = last.op /\ args = last.args THEN [op |-> last.op, args |-> last.args, listeners |-> last.pre.listeners, log |-> g.log] ELSE NoCall]
  /\ steps' = steps + 1

InitWith(configs) ==
  /\ \E doc \in Docs, subs \in configs :
       /\ g = connect_all(from_json(doc), subs, 1)
       /\ last = [op |-> "from_json", args |-> <<doc>>, pre |-> new("", doc.case_sensitive), prev |-> NoCall]
  /\ steps = 0

Init == InitWith(ListenerConfigs)

-----------------------------------------------------------------------------
(* One action per public method *)

Patches == {EmptyMap, Meta1, {<<"k", Null>>}}

Call_set_properties == Call("set_properties", <<Meta1>>, set_properties(Begin(g), Meta1))

Call_add_node == \E id \in NodeIds : Call("add_node", <<id>>, add_node(Begin(g), id, "c", None))

Call_remove_node == \E id \in {"a", MissingId} : Call("remove_node", <<id>>, remove_node(Begin(g), id))

Call_rename_node == \E ids \in {<<"a", "b">>, <<"a", "c">>, <<"a", "a">>, <<MissingId, "a">>} : Call("rename_node", ids, rename_node(Begin(g), ids[1], ids[2]))

Call_set_node_metadata == \E id \in {"a", MissingId}, m \in Patches : Call("set_node_metadata", <<id, m>>, set_node_metadata(Begin(g), id, m))

Call_add_edge == \E a \in {<<"a", "out", "b", "in">>, <<"a", "OUT", "b", "in">>, <<"b", "out", MissingId, "in">>, <<"b", "out", "b", "in">>} : Call("add_edge", a, add_edge(Begin(g), a[1], a[2], a[3], a[4], None))

Call_add_edge_index == \E i2 \in {None, Some(2)} : Call("add_edge_index", <<"a", "out", None, "b", "in", i2>>, add_edge_index(Begin(g), "a", "out", None, "b", "in", i2, None))

Call_remove_edge == \E n2 \in {None, Some("b")} : Call("remove_edge", <<"a", "out", n2>>, remove_edge(Begin(g), "a", "out", n2, IF is_some(n2) THEN Some("in") ELSE None))

Call_set_edge_metadata == \E port \in {"out", "OUT"}, m \in Patches : Call("set_edge_metadata", <<"a", port, "b", "in", m>>, set_edge_metadata(Begin(g), "a", port, "b", "in", m))

Call_add_initial == \E id \in {"b", MissingId} : Call("add_initial", <<id, "in">>, add_initial(Begin(g), "d", id, "in", None))

Call_add_initial_index == Call("add_initial_index", <<"b", "in", Some(2)>>, add_initial_index(Begin(g), "d", "b", "in", Some(2), None))

Call_add_graph_initial == \E port \in {"file", "FILE"} : Call("add_graph_initial", <<port>>, add_graph_initial(Begin(g), "d", port, None))

Call_add_graph_initial_index == Call("add_graph_initial_index", <<"file", Some(2)>>, add_graph_initial_index(Begin(g), "d", "file", Some(2), None))

Call_remove_initial == \E id \in {"a", MissingId} : Call("remove_initial", <<id, "in">>, remove_initial(Begin(g), id, "in"))

Call_remove_graph_initial == Call("remove_graph_initial", <<"file">>, remove_graph_initial(Begin(g), "file"))

Call_add_inport == \E a \in {<<"file", "b">>, <<"FILE", "a">>, <<"file", MissingId>>} : Call("add_inport", a, add_inport(Begin(g), a[1], a[2], "in", None))

Call_add_outport == \E id \in {"b", MissingId} : Call("add_outport", <<"file", id>>, add_outport(Begin(g), "file", id, "out", None))

Call_remove_inport == \E port \in {"file", "FILE"} : Call("remove_inport", <<port>>, remove_inport(Begin(g), port))

Call_remove_outport == Call("remove_outport", <<"file">>, remove_outport(Begin(g), "file"))

Call_rename_inport == Call("rename_inport", <<"file", "FILE">>, rename_inport(Begin(g), "file", "FILE"))

Call_rename_outport == Call("rename_outport", <<"file", "FILE">>, rename_outport(Begin(g), "file", "FILE"))

Call_set_inports_metadata == \E m \in Patches : Call("set_inports_metadata", <<"file", m>>, set_inports_metadata(Begin(g), "file", m))

Call_set_outports_metadata == \E m \in Patches : Call("set_outports_metadata", <<"file", m>>, set_outports_metadata(Begin(g), "file", m))

Call_add_group == Call("add_group", <<"g1", <<"a">> >>, add_group(Begin(g), "g1", <<"a">>, None))

Call_rename_group == \E name \in {"g1", "none"} : Call("rename_group", <<name, "g3">>, rename_group(Begin(g), name, "g3"))

Call_remove_group == \E name \in {"g1", "none"} : Call("remove_group", <<name>>, remove_group(Begin(g), name))

Call_set_group_metadata == \E name \in {"g1", "g2", "none"}, m \in Patches : Call("set_group_metadata", <<name, m>>, set_group_metadata(Begin(g), name, m))

Call_start_transaction == \E id \in {"t", "implicit"} : Call("start_transaction", <<id>>, start_transaction(Begin(g), id))

Call_end_transaction == \E id \in {"t"} : Call("end_transaction", <<id>>, end_transaction(Begin(g), id))

Call_emit == \E name \in {"add_node", "remove_edge"} : Call("emit", <<name>>, emit(Begin(g), name, "x"))

Next ==
  \/ Call_set_properties
  \/ Call_add_node
  \/ Call_remove_node
  \/ Call_rename_node
  \/ Call_set_node_metadata
  \/ Call_add_edge
  \/ Call_add_edge_index
  \/ Call_remove_edge
  \/ Call_set_edge_metadata
  \/ Call_add_initial
  \/ Call_add_initial_index
  \/ Call_add_graph_initial
  \/ Call_add_graph_initial_index
  \/ Call_remove_initial
  \/ Call_remove_graph_initial
  \/ Call_add_inport
  \/ Call_add_outport
  \/ Call_remove_inport
  \/ Call_remove_outport
  \/ Call_rename_inport
  \/ Call_rename_outport
  \/ Call_set_inports_metadata
  \/ Call_set_outports_metadata
  \/ Call_add_group
  \/ Call_rename_group
  \/ Call_remove_group
  \/ Call_set_group_metadata
  \/ Call_start_transaction
  \/ Call_end_transaction
  \/ Call_emit

Spec == Init /\ [][Next]_vars

-----------------------------------------------------------------------------
(* Vocabulary of the properties.                                             *)
(* `g` is the graph after the last public call, `last.pre` the graph that    *)
(* call started from, `g.events` the events the call emitted, in order, and  *)
(* `g.log` the callbacks it invoked, each with the graph it was handed and   *)
(* the graph it left.                                                        *)

Idle(G) == is_none(G.transaction.id) /\ G.transaction.depth = 0

(* Every registered listener is a closure that does not touch the graph. *)
Observers(G) == \A name \in DOMAIN G.listeners : \A i \in 1..Len(G.listeners[name]) : G.listeners[name][i].act = "observe"

EdgesOf(G, id) == {i \in 1..Len(G.edges) : G.edges[i].from.node_id = id \/ G.edges[i].to.node_id = id}

InitializersOf(G, id) == {i \in 1..Len(G.initializers) : is_some(G.initializers[i].to) /\ unwrap(G.initializers[i].to).node_id = id}

InportsOf(G, id) == {k \in DOMAIN G.inports : G.inports[k].process = id}

OutportsOf(G, id) == {k \in DOMAIN G.outports : G.outports[k].process = id}

Unreferenced(G, id) == EdgesOf(G, id) = {} /\ InitializersOf(G, id) = {} /\ InportsOf(G, id) = {} /\ OutportsOf(G, id) = {}

ReferencedIds(G) ==
  {G.edges[i].from.node_id : i \in 1..Len(G.edges)} \cup {G.edges[i].to.node_id : i \in 1..Len(G.edges)}
    \cup {unwrap(G.initializers[i].to).node_id : i \in {j \in 1..Len(G.initializers) : is_some(G.initializers[j].to)}}
    \cup {G.inports[k].process : k \in DOMAIN G.inports} \cup {G.outports[k].process : k \in DOMAIN G.outports}

TransactionEvents == {"start_transaction", "end_transaction"}

EventsNamed(G, name) == {i \in 1..Len(G.events) : G.events[i].name = name}

(* The public calls that mutate the entity model. *)
MutatingOps ==
  {"set_properties", "add_node", "remove_node", "rename_node", "set_node_metadata", "add_edge", "add_edge_index", "remove_edge", "set_edge_metadata",
   "add_initial", "add_initial_index", "add_graph_initial", "add_graph_initial_index", "remove_initial", "remove_graph_initial",
   "add_inport", "add_outport", "remove_inport", "remove_outport", "rename_inport", "rename_outport", "set_inports_metadata", "set_outports_metadata",
   "add_group", "rename_group", "remove_group", "set_group_metadata"}

MissingNodeOps == {"remove_node", "rename_node", "set_node_metadata"}

-----------------------------------------------------------------------------
(* C1: after remove_node(id) returns on a graph that contains a node id,    *)
(* with listeners that only observe, no edge has id as source or target     *)
(* (edges between the same two ports that differ only in index included),   *)
(* no initializer targets id, no inport or outport is backed by id, and no  *)
(* node with that id remains.                                                *)
C1_RemoveNodeLeavesNoReference ==
  (last.op = "remove_node" /\ Ok(g) /\ Observers(last.pre) /\ has_node(last.pre, last.args[1]))
    => (Unreferenced(g, last.args[1]) /\ ~has_node(g, last.args[1]))

(* remove_node("a") has returned on a graph where "a" had two edges between *)
(* the same ports differing in index, an initializer, an inport and an      *)
(* outport, and where observers were notified.                               *)
C1_Witness ==
  /\ last.op = "remove_node" /\ last.args[1] = "a" /\ Ok(g) /\ Observers(last.pre) /\ has_node(last.pre, "a")
  /\ \E i, j \in EdgesOf(last.pre, "a") : i # j /\ same_ports(last.pre.edges[i], "a", "out", "b", "in") /\ same_ports(last.pre.edges[j], "a", "out", "b", "in") /\ last.pre.edges[i].to.index # last.pre.edges[j].to.index
  /\ InitializersOf(last.pre, "a") # {} /\ InportsOf(last.pre, "a") # {} /\ OutportsOf(last.pre, "a") # {}
  /\ g.log # <<>>

(* C2: in every state in which no transaction is open, every edge's source  *)
(* and target node id, every initializer's target node id and every         *)
(* exported port's backing process id is the id of a node in the graph,     *)
(* whatever the listeners' callbacks did during the calls.                   *)
C2_ReferentialIntegrity == (Ok(g) /\ Idle(g)) => \A id \in ReferencedIds(g) : has_node(g, id)

(* C3: a public mutating call made while the graph is Idle, with listeners  *)
(* that only observe, emits exactly one start_transaction("implicit") as    *)
(* its first event and exactly one end_transaction("implicit") as its last  *)
(* event, and leaves the graph Idle.                                         *)
C3_OneImplicitTransactionPerCall ==
  (last.op \in MutatingOps /\ Idle(last.pre) /\ Observers(last.pre) /\ g.events # <<>>)
    => /\ EventsNamed(g, "start_transaction") = {1}
       /\ EventsNamed(g, "end_transaction") = {Len(g.events)}
       /\ g.events[1].data = "implicit" /\ g.events[Len(g.events)].data = "implicit"
       /\ Idle(g)

(* C4: remove_node, rename_node and set_node_metadata with an id that is    *)
(* not in the graph change nothing and emit nothing, whether called from    *)
(* outside (Idle or inside an explicit transaction) or from a callback      *)
(* running inside an implicit transaction.                                   *)
C4_MissingNodeIsNoOp ==
  /\ (last.op \in MissingNodeOps /\ last.args[1] = MissingId) => (core(g) = core(last.pre) /\ g.events = <<>> /\ Ok(g))
  /\ \A k \in 1..Len(g.log) : (g.log[k].act \in MissingNodeOps /\ g.log[k].done) => (g.log[k].post = g.log[k].pre /\ g.log[k].m = g.log[k].n)

(* C5: in every state in which no transaction is open, no two nodes of the  *)
(* graph have the same id.                                                    *)
C5_NodeIdsUnique == (Ok(g) /\ Idle(g)) => \A i, j \in 1..Len(g.nodes) : g.nodes[i].id = g.nodes[j].id => i = j

(* C6: while a transaction opened by start_transaction(id) is open, a       *)
(* mutating call emits no start_transaction and no end_transaction and      *)
(* leaves the transaction id and the depth as they were.                     *)
C6_ExplicitTransactionSuppressesImplicit ==
  (last.op \in MutatingOps /\ is_some(last.pre.transaction.id) /\ Ok(g))
    => (g.transaction = last.pre.transaction /\ \A i \in 1..Len(g.events) : g.events[i].name \notin TransactionEvents)

(* C7: the transaction id is absent exactly when the depth is 0, and the    *)
(* depth is never negative, in the graph between calls and in every graph   *)
(* handed to or left by a callback.                                          *)
TransactionConsistent(t) == (is_none(t.id) <=> t.depth = 0) /\ t.depth >= 0

C7_TransactionIdIffDepth ==
  /\ TransactionConsistent(g.transaction)
  /\ \A k \in 1..Len(g.log) : TransactionConsistent(g.log[k].pre.transaction) /\ TransactionConsistent(g.log[k].post.transaction)

(* A callback ran inside a nested implicit transaction (depth 2) of a call  *)
(* that started Idle and has returned Idle.                                  *)
C7_Witness ==
  /\ Ok(g) /\ Idle(last.pre) /\ Idle(g) /\ last.op \in MutatingOps
  /\ \E k \in 1..Len(g.log) : g.log[k].done /\ g.log[k].pre.transaction = [id |-> Some("implicit"), depth |-> 2]

(* C8: every event other than start_transaction and end_transaction that a  *)
(* call emits lies, in the trace, inside an open transaction: after a       *)
(* start_transaction (or after the start of the call, when a transaction    *)
(* was open then) and before the next end_transaction.                       *)
OpenBefore(i) ==
  LET S == {j \in 1..(i - 1) : g.events[j].name \in TransactionEvents}
  IN IF S = {} THEN is_some(last.pre.transaction.id) ELSE g.events[CHOOSE j \in S : \A j2 \in S : j2 <= j].name = "start_transaction"

C8_EventsInsideTransaction == last.op # "emit" => \A i \in 1..Len(g.events) : g.events[i].name \notin TransactionEvents => OpenBefore(i)

(* C9: start_transaction while a transaction (explicit or implicit) is      *)
(* open, and end_transaction while none is open, stop the process without   *)
(* emitting an event and without changing the transaction or the entities.  *)
C9_UsageErrorsAreFatal ==
  /\ (last.op = "start_transaction" /\ is_some(last.pre.transaction.id)) => (g.status = "exit" /\ g.events = <<>> /\ core(g) = core(last.pre))
  /\ (last.op = "end_transaction" /\ is_none(last.pre.transaction.id)) => (g.status = "exit" /\ g.events = <<>> /\ core(g) = core(last.pre))
  /\ \A k \in 1..Len(g.log) : (g.log[k].act = "start_transaction" /\ is_some(g.log[k].pre.transaction.id))
       => (~g.log[k].done /\ g.status = "exit" /\ core(g) = g.log[k].pre /\ Len(g.events) = g.log[k].n)

(* A callback called start_transaction inside the implicit transaction of   *)
(* the call that notified it, and the process stopped there.                 *)
C9_Witness ==
  /\ g.status = "exit" /\ Idle(last.pre)
  /\ \E k \in 1..Len(g.log) : g.log[k].act = "start_transaction" /\ g.log[k].pre.transaction.id = Some("implicit") /\ g.log[k].pre.transaction.depth = 1

(* C10: one emit of a name invokes every listener registered for it when    *)
(* the emission started exactly once, in registration order, whatever the   *)
(* mix of one-shot and persistent listeners, and then returns normally.     *)
C10_EmitInvokesEveryListenerOnce ==
  (last.op = "emit" /\ Observers(last.pre) /\ contains_key(last.pre.listeners, last.args[1]))
    => /\ Ok(g)
       /\ Len(g.log) = Len(last.pre.listeners[last.args[1]])
       /\ \A k \in 1..Len(g.log) : g.log[k].id = last.pre.listeners[last.args[1]][k].id /\ g.log[k].done

-----------------------------------------------------------------------------
(* The listeners registered for a name, in registration order, and how      *)
(* often a log shows one of them invoked.                                    *)
Registered(L, name) == IF contains_key(L, name) THEN L[name] ELSE <<>>

Invocations(log, id) == Cardinality({k \in 1..Len(log) : log[k].id = id})

(* C11: over successive emissions of an event a one-shot listener is        *)
(* invoked exactly once, whatever its position among the listeners of the   *)
(* event, and every persistent listener of the event is invoked on each     *)
(* emission: each emission returns, invokes once every listener registered  *)
(* when it starts, and a one-shot listener registered before the first of   *)
(* two successive emissions is invoked once over the two.                    *)
C11_OnceListenerFiresOnce ==
  (last.op = "emit" /\ Observers(last.pre))
    => /\ Ok(g)
       /\ \A i \in 1..Len(Registered(last.pre.listeners, last.args[1])) : Invocations(g.log, Registered(last.pre.listeners, last.args[1])[i].id) = 1
       /\ (last.prev.op = "emit" /\ last.prev.args = last.args)
            => \A i \in 1..Len(Registered(last.prev.listeners, last.args[1])) :
                 Registered(last.prev.listeners, last.args[1])[i].once
                   => Invocations(last.prev.log, Registered(last.prev.listeners, last.args[1])[i].id) + Invocations(g.log, Registered(last.prev.listeners, last.args[1])[i].id) = 1

(* C12: what a callback does to the registry of the event being emitted     *)
(* persists when the emission has finished: after a call during which a     *)
(* callback connected a listener for the event it was notified of, that     *)
(* listener is registered for the event, and after a call during which a    *)
(* callback disconnected the event it was notified of, no listener is       *)
(* registered for it (so the next emission invokes none).                    *)
ConnectedBy(entry) == entry.act = "connect" /\ entry.done

DisconnectedBy(entry) == entry.act = "disconnect" /\ entry.done

C12_RegistryChangesByCallbacksPersist ==
  Ok(g) => \A k \in 1..Len(g.log) :
             /\ ConnectedBy(g.log[k]) => \E i \in 1..Len(Registered(g.listeners, g.log[k].name)) : Registered(g.listeners, g.log[k].name)[i].id >= last.pre.next_cb
             /\ DisconnectedBy(g.log[k]) => Registered(g.listeners, g.log[k].name) = <<>>

(* C13: a call during which a remove_edge listener removed edges itself     *)
(* (each removal emitting remove_edge again) returns: no emission is left   *)
(* waiting for the callback it is running, every callback invoked has       *)
(* returned, and a call that started Idle ends Idle.                         *)
ReentrantRemoveEdge(log) == \E k \in 1..Len(log) : log[k].act = "remove_edge" /\ log[k].name = "remove_edge"

C13_ReentrantEmissionTerminates ==
  ReentrantRemoveEdge(g.log)
    => /\ g.status # "blocked"
       /\ Ok(g)
       /\ \A k \in 1..Len(g.log) : g.log[k].done
       /\ Idle(last.pre) => Idle(g)

-----------------------------------------------------------------------------
(* The edge an add_edge or add_edge_index call asks for: its endpoints and  *)
(* indices, with the port names as the graph stores them.                    *)
AddEdgeOps == {"add_edge", "add_edge_index"}

CallEdge ==
  IF last.op = "add_edge"
  THEN [from |-> leaf(last.args[1], get_port_name(last.pre, last.args[2]), None), to |-> leaf(last.args[3], get_port_name(last.pre, last.args[4]), None)]
  ELSE [from |-> leaf(last.args[1], get_port_name(last.pre, last.args[2]), last.args[3]), to |-> leaf(last.args[4], get_port_name(last.pre, last.args[5]), last.args[6])]

SameEdge(edge, e) == edge.from = e.from /\ edge.to = e.to

EdgeCount(G, e) == Cardinality({i \in 1..Len(G.edges) : SameEdge(G.edges[i], e)})

(* An edge between the same two ports as e, whatever its indices. *)
BetweenPorts(G, e) == has_edge(G.edges, e.from.node_id, e.from.port, e.to.node_id, e.to.port)

Repeated == last.prev.op = last.op /\ last.prev.args = last.args

(* C14: an add_edge or add_edge_index call that repeats the call before it  *)
(* (same endpoints, same indices) changes nothing and emits nothing, and    *)
(* when both nodes exist the graph then holds exactly one edge with those   *)
(* endpoints and indices.                                                    *)
C14_AddEdgeIdempotent ==
  (last.op \in AddEdgeOps /\ Repeated)
    => /\ Ok(g) /\ core(g) = core(last.pre) /\ g.events = <<>>
       /\ (has_node(g, CallEdge.from.node_id) /\ has_node(g, CallEdge.to.node_id)) => EdgeCount(g, CallEdge) = 1

(* C15: add_edge(a, p, b, q) leaves the same graph and the same events as   *)
(* add_edge_index(a, p, None, b, q, None) does from the same state, and     *)
(* conversely; and an edge asked for between two existing nodes whose ports *)
(* are joined only by edges with other indices is added as one more edge.   *)
SameOutcome(G1, G2) == core(G1) = core(G2) /\ G1.events = G2.events /\ G1.status = G2.status

C15_AddEdgeIsAddEdgeIndexWithoutIndices ==
  /\ last.op = "add_edge" => SameOutcome(g, add_edge_index(last.pre, last.args[1], last.args[2], None, last.args[3], last.args[4], None, None))
  /\ (last.op = "add_edge_index" /\ last.args[3] = None /\ last.args[6] = None) => SameOutcome(g, add_edge(last.pre, last.args[1], last.args[2], last.args[4], last.args[5], None))
  /\ (last.op \in AddEdgeOps /\ Ok(g) /\ Observers(last.pre) /\ has_node(last.pre, CallEdge.from.node_id) /\ has_node(last.pre, CallEdge.to.node_id) /\ BetweenPorts(last.pre, CallEdge) /\ EdgeCount(last.pre, CallEdge) = 0)
       => (Len(g.edges) = Len(last.pre.edges) + 1 /\ EdgeCount(g, CallEdge) = 1)

(* C16: in every reachable state no two edges of the graph have the same    *)
(* (from node, from port, from index, to node, to port, to index).          *)
C16_NoDuplicateEdges == \A i, j \in 1..Len(g.edges) : SameEdge(g.edges[i], g.edges[j]) => i = j

(* C17: remove_edge(node, port, None, None) removes every edge whose source *)
(* or target is (node, port), emits one remove_edge event per removed edge  *)
(* and keeps the other edges, in their order.                                *)
Touches(edge, node, port) == (edge.from.node_id = node /\ edge.from.port = port) \/ (edge.to.node_id = node /\ edge.to.port = port)

C17_RemoveEdgeSingleEndpoint ==
  (last.op = "remove_edge" /\ last.args[3] = None /\ Observers(last.pre) /\ Ok(g))
    => /\ g.edges = SelectSeq(last.pre.edges, LAMBDA edge : ~Touches(edge, last.args[1], get_port_name(last.pre, last.args[2])))
       /\ Cardinality(EventsNamed(g, "remove_edge")) = Len(last.pre.edges) - Len(g.edges)

(* C18: after remove_node(id), every group that listed id together with     *)
(* another member is still in the graph, with id taken out of its members   *)
(* and its name, other members and metadata unchanged, and every group      *)
(* that did not list id is unchanged.                                        *)
Lists(group, id) == \E i \in 1..Len(group.nodes) : group.nodes[i] = id

Without(group, id) == [group EXCEPT !.nodes = SelectSeq(@, LAMBDA n : n # id)]

HasGroup(G, group) == \E i \in 1..Len(G.groups) : G.groups[i] = group

C18_GroupsSurviveNodeRemoval ==
  (last.op = "remove_node" /\ has_node(last.pre, last.args[1]) /\ Observers(last.pre) /\ Ok(g))
    => \A i \in 1..Len(last.pre.groups) :
         IF Lists(last.pre.groups[i], last.args[1])
         THEN Without(last.pre.groups[i], last.args[1]).nodes # <<>> => HasGroup(g, Without(last.pre.groups[i], last.args[1]))
         ELSE HasGroup(g, last.pre.groups[i])

-----------------------------------------------------------------------------
(* C19: a set-metadata call on an existing target leaves the target's       *)
(* metadata equal to the merge-patch of its previous metadata with the      *)
(* patch: a patch key with a null value is absent, a patch key with another *)
(* value maps to that value, every other key keeps its value.  Metadata     *)
(* that was never set counts as empty.                                       *)
MetaOf(x) == IF is_none(x.metadata) THEN EmptyMap ELSE unwrap(x.metadata)

MergePatch(old, patch) == {kv \in old : kv[1] \notin map_keys(patch)} \cup {kv \in patch : kv[2] # Null}

Patched(before, after, patch) == MetaOf(after) = MergePatch(MetaOf(before), patch)

C19_Node == (last.op = "set_node_metadata" /\ has_node(last.pre, last.args[1])) => Patched(unwrap(get_node(last.pre, last.args[1])), unwrap(get_node(g, last.args[1])), last.args[2])

C19_Edge == (last.op = "set_edge_metadata" /\ is_some(get_edge(last.pre, last.args[1], last.args[2], last.args[3], last.args[4]))) => Patched(unwrap(get_edge(last.pre, last.args[1], last.args[2], last.args[3], last.args[4])), unwrap(get_edge(g, last.args[1], last.args[2], last.args[3], last.args[4])), last.args[5])

C19_Group == last.op = "set_group_metadata" => \A i \in 1..Len(last.pre.groups) : last.pre.groups[i].name = last.args[1] => Patched(last.pre.groups[i], g.groups[i], last.args[2])

C19_Inport == (last.op = "set_inports_metadata" /\ contains_key(last.pre.inports, get_port_name(last.pre, last.args[1]))) => Patched(last.pre.inports[get_port_name(last.pre, last.args[1])], g.inports[get_port_name(last.pre, last.args[1])], last.args[2])

C19_Outport == (last.op = "set_outports_metadata" /\ contains_key(last.pre.outports, get_port_name(last.pre, last.args[1]))) => Patched(last.pre.outports[get_port_name(last.pre, last.args[1])], g.outports[get_port_name(last.pre, last.args[1])], last.args[2])

C19_SetMetadataIsMergePatch == (Ok(g) /\ Observers(last.pre)) => (C19_Node /\ C19_Edge /\ C19_Group /\ C19_Inport /\ C19_Outport)

(* C20: called on an Idle graph, remove_group, rename_group and             *)
(* set_group_metadata with a name that no group has, and remove_initial     *)
(* with a node and port that no initializer targets, change nothing and     *)
(* emit no event at all.                                                     *)
GroupOps == {"remove_group", "rename_group", "set_group_metadata"}

NoSuchGroup(G, name) == \A i \in 1..Len(G.groups) : G.groups[i].name # name

NoSuchInitial(G, id, port) == \A i \in 1..Len(G.initializers) : is_some(G.initializers[i].to) => ~(unwrap(G.initializers[i].to).node_id = id /\ unwrap(G.initializers[i].to).port = get_port_name(G, port))

MatchesNothing ==
  \/ last.op \in GroupOps /\ NoSuchGroup(last.pre, last.args[1])
  \/ last.op = "remove_initial" /\ NoSuchInitial(last.pre, last.args[1], last.args[2])

C20_UnknownGroupOrInitialIsNoOp == (Idle(last.pre) /\ MatchesNothing) => (Ok(g) /\ core(g) = core(last.pre) /\ g.events = <<>>)

-----------------------------------------------------------------------------
(* The calls that create an entity attached to nodes, and the node ids each *)
(* of them names.                                                            *)
CreationOps == {"add_edge", "add_edge_index", "add_inport", "add_outport", "add_initial", "add_initial_index"}

NamedNodes ==
  CASE last.op = "add_edge" -> {last.args[1], last.args[3]}
    [] last.op = "add_edge_index" -> {last.args[1], last.args[4]}
    [] last.op \in {"add_inport", "add_outport"} -> {last.args[2]}
    [] last.op \in {"add_initial", "add_initial_index"} -> {last.args[1]}
    [] OTHER -> {}

(* C21: add_edge / add_edge_index naming a source or target node that does  *)
(* not exist, and add_inport / add_outport / add_initial / add_initial_index *)
(* naming a node that does not exist, return normally, leave the entity     *)
(* model and the transaction state as they were and emit no event; the same *)
(* holds for an add_edge made by a callback.                                 *)
C21_CreationOnMissingNodeIsNoOp ==
  /\ (last.op \in CreationOps /\ \E id \in NamedNodes : ~has_node(last.pre, id)) => (Ok(g) /\ core(g) = core(last.pre) /\ g.events = <<>>)
  /\ \A k \in 1..Len(g.log) : (g.log[k].act = "add_edge" /\ g.log[k].done /\ \E id \in {"a", "b"} : \A i \in 1..Len(g.log[k].pre.nodes) : g.log[k].pre.nodes[i].id # id) => (g.log[k].post = g.log[k].pre /\ g.log[k].m = g.log[k].n)

(* add_inport names a missing node on a graph that has nodes, edges and an  *)
(* exported inport, inside an explicit transaction.                          *)
C21_Witness == last.op = "add_inport" /\ ~has_node(last.pre, last.args[2]) /\ Len(last.pre.nodes) > 0 /\ Len(last.pre.edges) > 0 /\ contains_key(last.pre.inports, "file") /\ ~Idle(last.pre)

-----------------------------------------------------------------------------
(* What rename_node may touch: nodes, edges, initializers, exported ports   *)
(* and groups.                                                               *)
Entities(G) == [nodes |-> G.nodes, edges |-> G.edges, initializers |-> G.initializers, inports |-> G.inports, outports |-> G.outports, groups |-> G.groups]

(* The graph after the renaming just made is undone by rename_node(B, A). *)
RenamedBack == rename_node(Begin(g), last.args[2], last.args[1])

(* C22: on a graph that contains a node A, rename_node(A, B) followed by    *)
(* rename_node(B, A) gives back the nodes (id, uid, component, metadata),   *)
(* edges, initializers, exported ports and group memberships the graph had  *)
(* before the two calls, for every B: a fresh id, the id of another node,   *)
(* or A itself.                                                              *)
C22_RenameThereAndBack == (last.op = "rename_node" /\ has_node(last.pre, last.args[1]) /\ Ok(g)) => (Ok(RenamedBack) /\ Entities(RenamedBack) = Entities(last.pre))

-----------------------------------------------------------------------------
(* The graph that importing the export of the current graph constructs. *)
RoundTrip == from_json(to_json(g))

NoDuplicateEdges(G) == \A i, j \in 1..Len(G.edges) : (G.edges[i].from = G.edges[j].from /\ G.edges[i].to = G.edges[j].to) => i = j

NoEmptyNamedGroup(G) == \A i \in 1..Len(G.groups) : G.groups[i].name # ""

NodeSet(G) == {<<G.nodes[i].id, G.nodes[i].component>> : i \in 1..Len(G.nodes)}

EdgeSet(G) == {G.edges[i] : i \in 1..Len(G.edges)}

InitializerSet(G) == {G.initializers[i] : i \in 1..Len(G.initializers)}

GroupSet(G) == {G.groups[i] : i \in 1..Len(G.groups)}

(* C23: for a graph without duplicate edges and without empty-named groups, *)
(* from_json(to_json(G)) has the name, the case-sensitivity flag, the       *)
(* properties, the nodes (id, component), the edges (endpoints with their   *)
(* indices, metadata), the initializers, the inports, the outports and the  *)
(* groups of G; two edges that differ only in an index both survive.        *)
C23_RoundTrip ==
  (Ok(g) /\ NoDuplicateEdges(g) /\ NoEmptyNamedGroup(g)) =>
    /\ Ok(RoundTrip)
    /\ RoundTrip.name = g.name /\ RoundTrip.case_sensitive = g.case_sensitive /\ RoundTrip.properties = g.properties
    /\ NodeSet(RoundTrip) = NodeSet(g) /\ EdgeSet(RoundTrip) = EdgeSet(g) /\ InitializerSet(RoundTrip) = InitializerSet(g)
    /\ RoundTrip.inports = g.inports /\ RoundTrip.outports = g.outports /\ GroupSet(RoundTrip) = GroupSet(g)

-----------------------------------------------------------------------------
(* The calls made with a public exported-port name that is given in lower   *)
(* and in upper case, and what the call just made gives when it is handed   *)
(* the lower-case spelling of its name.                                      *)
PublicPortOps == {"add_inport", "remove_inport", "add_graph_initial"}

WithLowerCaseName ==
  CASE last.op = "add_inport" -> add_inport(last.pre, to_lowercase(last.args[1]), last.args[2], "in", None)
    [] last.op = "remove_inport" -> remove_inport(last.pre, to_lowercase(last.args[1]))
    [] last.op = "add_graph_initial" -> add_graph_initial(last.pre, "d", to_lowercase(last.args[1]), None)
    [] OTHER -> g

(* C24: on a case-insensitive graph an operation that takes a public        *)
(* exported-port name resolves names that differ only in letter case to the *)
(* same port: called with "FILE" it does what it does when called with      *)
(* "file"; after add_inport("file", ..), add_graph_initial(data, "FILE")    *)
(* adds an initializer on the node and port behind the inport.              *)
C24_PublicPortNamesIgnoreCase ==
  (last.op \in PublicPortOps /\ ~last.pre.case_sensitive) => (g.status = WithLowerCaseName.status /\ core(g) = core(WithLowerCaseName) /\ g.events = WithLowerCaseName.events)

-----------------------------------------------------------------------------
(* C25: has_event(name) is true exactly when at least one listener is       *)
(* registered for name: false before any connect, false after disconnect,   *)
(* and false once the only listener for name, a one-shot listener, has been *)
(* invoked and removed.                                                      *)
C25_HasEventIffListenerRegistered == Ok(g) => \A name \in DOMAIN g.listeners \cup {"add_node", "remove_edge"} : has_event(g, name) <=> Len(Registered(g.listeners, name)) > 0

-----------------------------------------------------------------------------
(* The stage of remove_node's cascade an event belongs to; 0 for the events *)
(* that are not removals.                                                    *)
CascadeStage(name) ==
  CASE name = "remove_edge" -> 1
    [] name = "remove_initial" -> 2
    [] name = "remove_inport" -> 3
    [] name = "remove_outport" -> 4
    [] name \in {"change_group", "remove_group"} -> 5
    [] name = "remove_node" -> 6
    [] OTHER -> 0

(* C26: the events of remove_node(id) on a graph that has the node come in  *)
(* cascade order: the remove_edge events, then the remove_initial events,   *)
(* then remove_inport, then remove_outport, then the group events, and one  *)
(* remove_node event after all of them; when the call opened the            *)
(* transaction, remove_node is the event right before the closing           *)
(* end_transaction.                                                          *)
C26_RemoveNodeCascadeOrder ==
  (last.op = "remove_node" /\ has_node(last.pre, last.args[1]) /\ Ok(g)) =>
    /\ \A i, j \in 1..Len(g.events) : (i < j /\ CascadeStage(g.events[i].name) > 0 /\ CascadeStage(g.events[j].name) > 0) => CascadeStage(g.events[i].name) <= CascadeStage(g.events[j].name)
    /\ Cardinality({i \in 1..Len(g.events) : g.events[i].name = "remove_node"}) = 1
    /\ Idle(last.pre) => \E k \in 1..(Len(g.events) - 1) : g.events[k].name = "remove_node" /\ g.events[k + 1].name = "end_transaction"

-----------------------------------------------------------------------------
(* The positions in the trace of the events the call emitted itself: those  *)
(* not emitted while one of the callbacks was running.                       *)
OwnEvents == {i \in 1..Len(g.events) : \A k \in 1..Len(g.log) : ~(g.log[k].n < i /\ i <= g.log[k].m)}

NoReferenceTo(G, id) == Unreferenced(G, id) /\ \A i \in 1..Len(G.groups) : ~contains(G.groups[i].nodes, id)

(* C27: rename_node(old, new) on an existing node of an idle graph emits    *)
(* start_transaction, rename_node(old, new), end_transaction and nothing    *)
(* else (no change_, add_ or remove_ event); when the rename_node event is  *)
(* delivered, every edge endpoint, initializer target, exported-port        *)
(* process and group member that was old is new already.                    *)
C27_RenameNodeEvents ==
  (last.op = "rename_node" /\ has_node(last.pre, last.args[1]) /\ Idle(last.pre) /\ Ok(g)) =>
    /\ \E i, j, k \in OwnEvents : i < j /\ j < k /\ OwnEvents = {i, j, k} /\ g.events[i].name = "start_transaction" /\ g.events[j] = [name |-> "rename_node", data |-> last.args] /\ g.events[k].name = "end_transaction"
    /\ \A k \in 1..Len(g.log) : (g.log[k].name = "rename_node" /\ last.args[1] # last.args[2]) => NoReferenceTo(g.log[k].pre, last.args[1])

-----------------------------------------------------------------------------
(* The stage of the import an event belongs to; 0 for the other events. *)
ImportStage(name) ==
  CASE name = "change_properties" -> 1
    [] name = "add_node" -> 2
    [] name \in {"add_edge", "add_initial"} -> 3
    [] name = "add_inport" -> 4
    [] name = "add_outport" -> 5
    [] name = "add_group" -> 6
    [] OTHER -> 0

LoadEvent(name) == [name |-> name, data |-> "load_json"]

(* C28: from_json rebuilds the graph inside one explicit transaction: the   *)
(* trace starts with the only start_transaction("load_json"), ends with the *)
(* only end_transaction("load_json"), holds no "implicit" transaction event *)
(* and orders the rest as change_properties, add_node, add_edge and         *)
(* add_initial, add_inport, add_outport, add_group; the graph returned is   *)
(* idle, and a connection that names a process the document does not have   *)
(* is not added.                                                             *)
C28_FromJsonOneTransaction ==
  last.op = "from_json" =>
    /\ Ok(g) /\ Idle(g) /\ Len(g.events) >= 2
    /\ g.events[1] = LoadEvent("start_transaction") /\ g.events[Len(g.events)] = LoadEvent("end_transaction")
    /\ \A i \in 2..(Len(g.events) - 1) : ImportStage(g.events[i].name) > 0
    /\ \A i, j \in 2..(Len(g.events) - 1) : i < j => ImportStage(g.events[i].name) <= ImportStage(g.events[j].name)
    /\ ReferencedIds(g) \subseteq DOMAIN last.args[1].processes

(* The main document is imported: every stage has events, and the two       *)
(* connections that name a missing process were left out.                   *)
C28_Witness ==
  /\ last.op = "from_json" /\ Len(last.args[1].connections) = 6 /\ Len(g.edges) = 2 /\ Len(g.initializers) = 2
  /\ \A stage \in 2..6 : \E i \in 1..Len(g.events) : ImportStage(g.events[i].name) = stage

-----------------------------------------------------------------------------
Targets(iip, id, port_name) == is_some(iip.to) /\ unwrap(iip.to).node_id = id /\ unwrap(iip.to).port = port_name

(* C29: remove_initial(node, port), called directly or by the cascade of    *)
(* remove_node, removes the initializers that target (node, port) and no    *)
(* other, with one remove_initial event for each: an initializer on another *)
(* node or on another port is still in the graph afterwards.                *)
C29_RemoveInitialRemovesOnlyItsTarget ==
  /\ (last.op = "remove_initial" /\ Ok(g)) =>
        /\ g.initializers = SelectSeq(last.pre.initializers, LAMBDA iip : ~Targets(iip, last.args[1], get_port_name(last.pre, last.args[2])))
        /\ Cardinality(EventsNamed(g, "remove_initial")) = Cardinality({i \in 1..Len(last.pre.initializers) : Targets(last.pre.initializers[i], last.args[1], get_port_name(last.pre, last.args[2]))})
  /\ (last.op = "remove_node" /\ has_node(last.pre, last.args[1]) /\ Ok(g)) =>
        g.initializers = SelectSeq(last.pre.initializers, LAMBDA iip : ~(is_some(iip.to) /\ unwrap(iip.to).node_id = last.args[1]))

-----------------------------------------------------------------------------
(* The graphs the listeners of an event were handed during the call. *)
SeenAt(name) == {g.log[k].pre : k \in {j \in 1..Len(g.log) : g.log[j].name = name}}

(* C30: the entity model is changed before the semantic event is delivered: *)
(* a listener of change_node or change_edge reads the node or edge with its *)
(* patched metadata, as stored when the call returns, and a listener of     *)
(* remove_edge, remove_group or remove_initial no longer finds the entity   *)
(* in the graph.                                                             *)
C30_ModelChangedBeforeEvent ==
  Ok(g) =>
    /\ last.op = "set_node_metadata" => \A seen \in SeenAt("change_node") : seen.nodes = g.nodes
    /\ last.op = "set_edge_metadata" => \A seen \in SeenAt("change_edge") : seen.edges = g.edges
    /\ (last.op = "remove_edge" /\ is_some(last.args[3])) => \A seen \in SeenAt("remove_edge") : ~has_edge(seen.edges, "a", "out", "b", "in")
    /\ last.op = "remove_group" => \A seen \in SeenAt("remove_group") : \A i \in 1..Len(seen.groups) : seen.groups[i].name # last.args[1]
    /\ last.op = "remove_initial" => \A seen \in SeenAt("remove_initial") : \A i \in 1..Len(seen.initializers) : ~Targets(seen.initializers[i], last.args[1], get_port_name(last.pre, last.args[2]))

-----------------------------------------------------------------------------
(* C31: remove_edge(node, port, Some(node2), Some(port2)), the form with    *)
(* both endpoints, removes one specific edge: a call removes at most one    *)
(* edge and emits at most one remove_edge event, also when several edges    *)
(* between the two ports differ only in an index.                           *)
C31_RemoveEdgeBothEndpointsRemovesOne ==
  (last.op = "remove_edge" /\ is_some(last.args[3]) /\ Ok(g)) =>
    /\ Len(last.pre.edges) - Len(g.edges) <= 1
    /\ Cardinality(EventsNamed(g, "remove_edge")) <= 1

-----------------------------------------------------------------------------
GroupNames(G) == {G.groups[i].name : i \in 1..Len(G.groups)}

RemoveGroupEvents == {g.events[i].data.name : i \in EventsNamed(g, "remove_group")}

(* C32: a remove_group event is emitted exactly for the groups that are     *)
(* removed: a group for which remove_group or the cascade of remove_node    *)
(* emitted the event is absent from the graph when the call returns, and    *)
(* every group the call removed from the graph has its remove_group event.  *)
C32_RemoveGroupEventIffRemoved ==
  (last.op \in {"remove_group", "remove_node"} /\ Ok(g)) =>
    /\ RemoveGroupEvents \cap GroupNames(g) = {}
    /\ GroupNames(last.pre) \ GroupNames(g) \subseteq RemoveGroupEvents

-----------------------------------------------------------------------------
(* The log entries of the callbacks that were notified of one of the four   *)
(* events and have returned.                                                 *)
Notified == {k \in 1..Len(g.log) : g.log[k].done /\ g.log[k].name \in {"remove_edge", "remove_group", "remove_initial", "change_node"}}

(* What the call was asked to remove. *)
AskedToRemoveEdge(e) ==
  \/ last.op = "remove_node" /\ (e.from.node_id = last.args[1] \/ e.to.node_id = last.args[1])
  \/ last.op = "remove_edge" /\ e.from.node_id = last.args[1] /\ e.from.port = get_port_name(last.pre, last.args[2])

AskedToRemoveGroup(group) ==
  \/ last.op = "remove_node" /\ Lists(group, last.args[1])
  \/ last.op = "remove_group" /\ group.name = last.args[1]

AskedToRemoveInitial(iip) ==
  \/ last.op = "remove_node" /\ unwrap(iip.to).node_id = last.args[1]
  \/ last.op = "remove_initial" /\ Targets(iip, last.args[1], get_port_name(last.pre, last.args[2]))

Added(before, after) == {after[i] : i \in 1..Len(after)} \ {before[i] : i \in 1..Len(before)}

(* C33: what a callback for remove_edge, remove_group, remove_initial or    *)
(* change_node adds to the graph while the emitting call is running is not  *)
(* lost when that call finishes: an edge, group or initializer added by the *)
(* callback is in the graph after the call has returned, unless the call    *)
(* was asked to remove it.                                                   *)
C33_CallbackMutationsSurvive ==
  (Ok(g) /\ last.op \in MutatingOps) => \A k \in Notified :
    /\ \A e \in Added(g.log[k].pre.edges, g.log[k].post.edges) : AskedToRemoveEdge(e) \/ \E i \in 1..Len(g.edges) : g.edges[i] = e
    /\ \A group \in Added(g.log[k].pre.groups, g.log[k].post.groups) : AskedToRemoveGroup(group) \/ HasGroup(g, group)
    /\ \A iip \in Added(g.log[k].pre.initializers, g.log[k].post.initializers) : AskedToRemoveInitial(iip) \/ \E i \in 1..Len(g.initializers) : g.initializers[i] = iip

-----------------------------------------------------------------------------
(* The edge that get_edge finds for the arguments of the call just made, in *)
(* the graph before and after the call.                                      *)
CalledEdge(G) == get_edge(G, last.args[1], last.args[2], last.args[3], last.args[4])

(* C34: on a case-insensitive graph set_edge_metadata, called for an edge   *)
(* that exists with its port names in any letter case ("OUT" for an edge    *)
(* stored as "out"), returns normally, stores the metadata it announced in  *)
(* change_edge on that edge and closes the transaction it opened; it never  *)
(* stops after having emitted change_edge.                                  *)
C34_SetEdgeMetadataAnyCase ==
  (last.op = "set_edge_metadata" /\ ~last.pre.case_sensitive /\ is_some(CalledEdge(last.pre))) =>
    /\ g.status = "ok"
    /\ Idle(last.pre) => \E i \in EventsNamed(g, "change_edge"), j \in EventsNamed(g, "end_transaction") : i < j
    /\ \A i \in EventsNamed(g, "change_edge") : is_some(CalledEdge(g)) /\ unwrap(CalledEdge(g)).metadata = g.events[i].data[1].metadata

====
